---------------------------- MODULE Spec2Model ----------------------------
(***************************************************************************)
(* Model of prowler's Google Chat integration                              *)
(*   prowler/lib/outputs/google_chat/google_chat.py                        *)
(*   prowler/lib/outputs/google_chat/exceptions/exceptions.py              *)
(*   prowler/lib/outputs/utils.py                                          *)
(*                                                                         *)
(* Python strings are TLA+ strings (TLC treats them as sequences of        *)
(* characters: Len, SubSeq and \o act on them), so prefix tests, message   *)
(* formatting and JSON recognition are computed character by character.    *)
(* Python values of other types are tagged records.  An operation that can *)
(* raise returns an outcome record: either a returned value or a raised    *)
(* exception.  A float with at most two decimals is held as an integer     *)
(* number of hundredths and printed by FloatRepr.                          *)
(***************************************************************************)
EXTENDS Integers, Sequences, FiniteSets, TLC

VARIABLES
    GOOGLE_CHAT_ERROR_CODES, \* the class attribute of GoogleChatBaseException
    notifier,                \* the GoogleChat instance, NoNotifier before construction
    posted,                  \* the requests.post calls made by the last operation
    last,                    \* the last operation: its name, inputs and outcome
    prev,                    \* the test_connection call right before `last`, when
                             \* `last` is a test_connection call on the same URL
                             \* with the same transport outcome and the other value
                             \* of raise_on_exception; else NoCall
    DEFAULT_SUBTITLE,        \* the module attribute, set when the module is imported
    environ                  \* os.environ: AUTH_URL and PROWLER_URL, "" when unset

vars == <<GOOGLE_CHAT_ERROR_CODES, notifier, posted, last, prev, DEFAULT_SUBTITLE, environ>>

---------------------------------------------------------------------------
(* Bounds of the model *)

\* URL candidates are concatenations of at most MaxUrlParts pieces
MaxUrlParts == 3
\* response bodies are concatenations of at most MaxBodyParts pieces
MaxBodyParts == 2
\* the three percentage fields of stats range over 0..MaxCount
MaxCount == 22

---------------------------------------------------------------------------
(* Python values *)

PyNone == [type |-> "NoneType", s |-> "", n |-> 0, items |-> <<>>]
PyStr(str) == [type |-> "str", s |-> str, n |-> 0, items |-> <<>>]
PyInt(i) == [type |-> "int", s |-> "", n |-> i, items |-> <<>>]
PyList(xs) == [type |-> "list", s |-> "", n |-> 0, items |-> xs]
PyDict == [type |-> "dict", s |-> "", n |-> 0, items |-> <<>>]
PyBool(i) == [type |-> "bool", s |-> "", n |-> i, items |-> <<>>]

\* bool(v), as `not v` and `if v` use it
Truthy(v) ==
    CASE v.type = "str" -> v.s # ""
      [] v.type = "int" -> v.n # 0
      [] v.type = "bool" -> v.n # 0
      [] v.type = "list" -> v.items # <<>>
      [] OTHER -> FALSE

\* str.startswith
StartsWith(str, prefix) ==
    /\ Len(str) >= Len(prefix)
    /\ SubSeq(str, 1, Len(prefix)) = prefix

\* `sub in str`
Contains(str, sub) ==
    \/ sub = ""
    \/ \E i \in 1..(Len(str) - Len(sub) + 1) : SubSeq(str, i, i + Len(sub) - 1) = sub

\* the strings made of at most k pieces
RECURSIVE Concats(_, _)
Concats(pieces, k) ==
    IF k = 0 THEN {""}
    ELSE LET shorter == Concats(pieces, k - 1)
         IN shorter \cup {str \o p : str \in shorter, p \in pieces}

\* outcomes of a call
NoExc == [cls |-> "None"]
Return(v) == [raised |-> FALSE, value |-> v, exc |-> NoExc]
Raise(e) == [raised |-> TRUE, value |-> PyNone, exc |-> e]

\* a builtin or third-party exception instance
Error(cls) == [cls |-> cls]

---------------------------------------------------------------------------
(* exceptions/exceptions.py *)

ErrorTable ==
    (<<9000, "GoogleChatClientError">> :>
        [message |-> "Google Chat client error occurred",
         remediation |-> "Verify the webhook URL, networking rules, and retry the request."])
    @@
    (<<9001, "GoogleChatInvalidWebhookError">> :>
        [message |-> "Invalid Google Chat webhook URL",
         remediation |-> "Ensure the webhook URL matches the expected Google Chat format."])
    @@
    (<<9002, "GoogleChatSendMessageError">> :>
        [message |-> "Google Chat message was not accepted",
         remediation |-> "Review the response payload for details and adjust the request body."])

\* GoogleChatBaseException.__init__: the looked-up dict is the table's own
\* entry, so the message override is written into the table.  `message` is
\* "" for None (both are falsy in `if message`).  The exception carries what
\* is handed to ProwlerException.__init__.
BaseExceptionInit(table, cls, code, file, original_exception, message) ==
    LET key == <<code, cls>>
        found == key \in DOMAIN table
        looked_up == IF found THEN table[key]
                     ELSE [message |-> "Unknown Google Chat error", remediation |-> ""]
        error_info == IF message # "" THEN [looked_up EXCEPT !.message = message]
                      ELSE looked_up
    IN [exc |-> [cls |-> cls,
                 code |-> code,
                 source |-> "Google Chat",
                 file |-> IF file # "" THEN file ELSE "exceptions.py",
                 original_exception |-> original_exception,
                 error_info |-> error_info],
        table |-> IF found THEN [table EXCEPT ![key] = error_info] ELSE table]

\* variant: the caught error is not handed on as original_exception
GoogleChatClientErrorWithoutCause(table, file, original_exception, message) ==
    BaseExceptionInit(table, "GoogleChatClientError", 9000, file, NoExc, message)

GoogleChatClientError(table, file, original_exception, message) ==
    BaseExceptionInit(table, "GoogleChatClientError", 9000, file, original_exception, message)

GoogleChatInvalidWebhookError(table, file, original_exception, message) ==
    BaseExceptionInit(table, "GoogleChatInvalidWebhookError", 9001, file, original_exception, message)

GoogleChatSendMessageError(table, file, original_exception, message) ==
    BaseExceptionInit(table, "GoogleChatSendMessageError", 9002, file, original_exception, message)

\* the code each class hands to GoogleChatBaseException.__init__
CodeOf(cls) ==
    CASE cls = "GoogleChatClientError" -> 9000
      [] cls = "GoogleChatInvalidWebhookError" -> 9001
      [] OTHER -> 9002

GoogleChatClasses ==
    {"GoogleChatClientError", "GoogleChatInvalidWebhookError", "GoogleChatSendMessageError"}

\* isinstance(e, GoogleChatBaseException)
IsGoogleChatBaseException(e) == e.cls \in GoogleChatClasses

\* isinstance(e, requests.exceptions.RequestException)
IsRequestException(e) == e.cls \in {"RequestException", "ConnectionError", "Timeout"}

---------------------------------------------------------------------------
(* google_chat.py: module constants *)

DEFAULT_CARD_HEADER == "Prowler Scan Summary"
REQUEST_TIMEOUT_SECONDS == 10
WEBHOOK_PREFIX == "https://chat.googleapis.com/"
THIS_FILE == "google_chat.py"

---------------------------------------------------------------------------
(* GoogleChat.__validate_webhook_url *)

\* variant: the prefix is looked for anywhere in the candidate
ValidateWebhookUrlAnywhere(table, webhook_url) ==
    IF ~Truthy(webhook_url) \/ webhook_url.type # "str"
    THEN LET e == GoogleChatInvalidWebhookError(table, THIS_FILE, NoExc,
                      "Google Chat webhook URL is required.")
         IN [out |-> Raise(e.exc), table |-> e.table]
    ELSE IF ~Contains(webhook_url.s, WEBHOOK_PREFIX)
    THEN LET e == GoogleChatInvalidWebhookError(table, THIS_FILE, NoExc,
                      "Google Chat webhook URL must start with https://chat.googleapis.com/.")
         IN [out |-> Raise(e.exc), table |-> e.table]
    ELSE [out |-> Return(webhook_url), table |-> table]

ValidateWebhookUrl(table, webhook_url) ==
    IF ~Truthy(webhook_url) \/ webhook_url.type # "str"
    THEN LET e == GoogleChatInvalidWebhookError(table, THIS_FILE, NoExc,
                      "Google Chat webhook URL is required.")
         IN [out |-> Raise(e.exc), table |-> e.table]
    ELSE IF ~StartsWith(webhook_url.s, WEBHOOK_PREFIX)
    THEN LET e == GoogleChatInvalidWebhookError(table, THIS_FILE, NoExc,
                      "Google Chat webhook URL must start with https://chat.googleapis.com/.")
         IN [out |-> Raise(e.exc), table |-> e.table]
    ELSE [out |-> Return(webhook_url), table |-> table]

---------------------------------------------------------------------------
(* outputs/utils.py *)

\* the logo URLs imported from prowler.config.config, by name
aws_logo == "aws_logo"
gcp_logo == "gcp_logo"
azure_logo == "azure_logo"
square_logo_img == "square_logo_img"

\* ", ".join(xs)
RECURSIVE Join(_, _)
Join(sep, xs) ==
    IF xs = <<>> THEN ""
    ELSE IF Len(xs) = 1 THEN xs[1]
    ELSE xs[1] \o sep \o Join(sep, Tail(xs))

\* the lines printed for provider.identity.subscriptions.items()
RECURSIVE PrintedSubscriptions(_)
PrintedSubscriptions(items) ==
    IF items = <<>> THEN ""
    ELSE "- *" \o items[1][1] \o ": " \o items[1][2] \o "*\n"
         \o PrintedSubscriptions(Tail(items))

\* variant: the logo of the type is assigned before the identity is read
get_provider_identity_and_logo_logo_first(provider) ==
    IF ~provider.has_type THEN <<"", aws_logo>>
    ELSE IF provider.type = "aws"
    THEN IF provider.readable
         THEN <<"AWS Account *" \o provider.account \o "*", aws_logo>>
         ELSE <<"", aws_logo>>
    ELSE IF provider.type = "gcp"
    THEN IF provider.readable
         THEN <<"GCP Projects *" \o Join(", ", provider.project_ids) \o "*", gcp_logo>>
         ELSE <<"", gcp_logo>>
    ELSE IF provider.type = "azure"
    THEN IF provider.readable
         THEN <<"Azure Subscriptions:\n" \o PrintedSubscriptions(provider.subscriptions),
                azure_logo>>
         ELSE <<"", azure_logo>>
    ELSE <<"", aws_logo>>

\* A provider object: has_type says whether the attribute `type` exists,
\* readable whether the identity attributes of its type can be read (reading
\* them raises otherwise).  The except clause swallows every error and the
\* values assigned so far are returned.
get_provider_identity_and_logo(provider) ==
    IF ~provider.has_type THEN <<"", aws_logo>>
    ELSE IF provider.type = "aws"
    THEN IF provider.readable
         THEN <<"AWS Account *" \o provider.account \o "*", aws_logo>>
         ELSE <<"", aws_logo>>
    ELSE IF provider.type = "gcp"
    THEN IF provider.readable
         THEN <<"GCP Projects *" \o Join(", ", provider.project_ids) \o "*", gcp_logo>>
         ELSE <<"", aws_logo>>
    ELSE IF provider.type = "azure"
    THEN IF provider.readable
         THEN <<"Azure Subscriptions:\n" \o PrintedSubscriptions(provider.subscriptions),
                azure_logo>>
         ELSE <<"", aws_logo>>
    ELSE <<"", aws_logo>>

\* stats is a dict (mapping, with d its items) or some other object
\* (None), on which subscripting and .get raise.
StatsDict(d) == [mapping |-> TRUE, d |-> d]
StatsNone == [mapping |-> FALSE, d |-> <<>>]

\* build_summary_title: any error (KeyError, TypeError) is logged and ""
\* returned.  The emoji of the literal are written as :names:.
build_summary_title(identity, stats) ==
    IF stats.mapping /\ "findings_count" \in DOMAIN stats.d
    THEN "Hey there :wave: \n I'm *Prowler*, _the handy multi-cloud security tool_ "
         \o ":cloud::key:\n\n I have just finished the security assessment on your "
         \o identity \o " with a total of *" \o ToString(stats.d["findings_count"])
         \o "* findings."
    ELSE ""

get_prowler_avatar == square_logo_img

---------------------------------------------------------------------------
(* google_chat.py: the payload builder *)

\* `identity or default`
StrOr(str, default) == IF str # "" THEN str ELSE default

\* stats.get(key, 0) on a dict
StatsGet(stats, key) == IF key \in DOMAIN stats.d THEN stats.d[key] ELSE 0

\* round(num / den, 0) for den > 0: to nearest, ties to even
RoundHalfEven(num, den) ==
    LET q == num \div den
        r == num % den
    IN IF 2 * r > den \/ (2 * r = den /\ q % 2 = 1) THEN q + 1 ELSE q

\* variant: no findings counts as 100 %
CalculatePercentageEmptyIsFull(count, total) ==
    IF total = 0 THEN 10000
    ELSE RoundHalfEven(count * 10000, total)

\* variant: the percentage is cut after two decimals, not rounded
CalculatePercentageTruncated(count, total) ==
    IF total = 0 THEN 0
    ELSE (count * 10000) \div total

\* GoogleChat.__calculate_percentage on ints, in hundredths:
\* round((count / total) * 100, 2)
CalculatePercentage(count, total) ==
    IF total = 0 THEN 0
    ELSE RoundHalfEven(count * 10000, total)

\* repr of the float hundredths / 100, as the f-string prints it
FloatRepr(hundredths) ==
    LET whole == hundredths \div 100
        frac == hundredths % 100
    IN ToString(whole) \o "." \o
       (IF frac % 10 = 0 THEN ToString(frac \div 10)
        ELSE IF frac < 10 THEN "0" \o ToString(frac)
        ELSE ToString(frac))

\* GoogleChat.__build_identity_section
BuildIdentitySection(identity, logo, stats) ==
    LET summary_text == build_summary_title(StrOr(identity, "your environment"), stats)
    IN [widgets |-> <<
           [decoratedText |->
               [text |-> "*Environment*\n" \o StrOr(identity, "Unknown provider"),
                startIcon |-> [altText |-> "Provider Logo", imageUrl |-> logo]]],
           [textParagraph |-> [text |-> summary_text]]
       >>]

Severities(stats, suffix) ==
    "*Severities:* "
    \o "Critical " \o ToString(StatsGet(stats, "total_critical_severity_" \o suffix)) \o " - "
    \o "High " \o ToString(StatsGet(stats, "total_high_severity_" \o suffix)) \o " - "
    \o "Medium " \o ToString(StatsGet(stats, "total_medium_severity_" \o suffix)) \o " - "
    \o "Low " \o ToString(StatsGet(stats, "total_low_severity_" \o suffix))

PassedText(count, hundredths) ==
    ":ok: *" \o ToString(count) \o " Passed findings* (" \o FloatRepr(hundredths) \o "%)"

FailedText(count, hundredths) ==
    ":x: *" \o ToString(count) \o " Failed findings* (" \o FloatRepr(hundredths) \o "%)"

\* variant: the fields are read with stats[key], so a missing one raises
BuildStatisticsSectionSubscript(stats) ==
    IF ~stats.mapping THEN Raise(Error("TypeError"))
    ELSE IF \E key \in {"total_pass", "total_fail", "findings_count", "resources_count",
                        "total_critical_severity_pass", "total_critical_severity_fail",
                        "total_high_severity_pass", "total_high_severity_fail",
                        "total_medium_severity_pass", "total_medium_severity_fail",
                        "total_low_severity_pass", "total_low_severity_fail"} :
               key \notin DOMAIN stats.d
    THEN Raise(Error("KeyError"))
    ELSE Return([widgets |-> <<
           [decoratedText |->
               [text |-> PassedText(stats.d["total_pass"],
                            CalculatePercentage(stats.d["total_pass"], stats.d["findings_count"])),
                bottomText |-> Severities(stats, "pass")]],
           [decoratedText |->
               [text |-> FailedText(stats.d["total_fail"],
                            CalculatePercentage(stats.d["total_fail"], stats.d["findings_count"])),
                bottomText |-> Severities(stats, "fail")]],
           [decoratedText |->
               [text |-> ":chart: *" \o ToString(stats.d["resources_count"])
                         \o " Scanned Resources*",
                bottomText |-> "Total findings analysed: "
                         \o ToString(stats.d["findings_count"])]]
       >>])

\* GoogleChat.__build_statistics_section: on an object that is no dict the
\* first stats.get raises AttributeError.  The bullet and the emoji of the
\* literals are written in ASCII.
BuildStatisticsSection(stats) ==
    IF ~stats.mapping THEN Raise(Error("AttributeError"))
    ELSE
    LET pass_percentage ==
            CalculatePercentage(StatsGet(stats, "total_pass"), StatsGet(stats, "findings_count"))
        fail_percentage ==
            CalculatePercentage(StatsGet(stats, "total_fail"), StatsGet(stats, "findings_count"))
    IN Return([widgets |-> <<
           [decoratedText |->
               [text |-> PassedText(StatsGet(stats, "total_pass"), pass_percentage),
                bottomText |-> Severities(stats, "pass")]],
           [decoratedText |->
               [text |-> FailedText(StatsGet(stats, "total_fail"), fail_percentage),
                bottomText |-> Severities(stats, "fail")]],
           [decoratedText |->
               [text |-> ":chart: *" \o ToString(StatsGet(stats, "resources_count"))
                         \o " Scanned Resources*",
                bottomText |-> "Total findings analysed: "
                         \o ToString(StatsGet(stats, "findings_count"))]]
       >>])

\* variant: the args are always appended, with the space before them
BuildParametersSectionAlwaysSpace(args) ==
    [widgets |-> << [textParagraph |->
                        [text |-> "*Used parameters*\n'prowler " \o args \o "'"]] >>]

\* GoogleChat.__build_parameters_section.  The backquotes of the literals
\* are written as ' (a TLA+ string cannot hold a backquote).
BuildParametersSection(args) ==
    LET parameters_text ==
            IF args # "" THEN "*Used parameters*\n'prowler " \o args \o "'"
            ELSE "*Used parameters*\n'prowler'"
    IN [widgets |-> << [textParagraph |-> [text |-> parameters_text]] >>]

\* GoogleChat.__build_message; default_subtitle is the module's
\* DEFAULT_SUBTITLE
BuildMessage(self, default_subtitle, identity, logo, stats, args) ==
    LET identity_section == BuildIdentitySection(identity, logo, stats)
        statistics_section == BuildStatisticsSection(stats)
    IN IF statistics_section.raised THEN statistics_section
       ELSE Return([cardsV2 |-> <<
               [cardId |-> "prowler-summary",
                card |->
                   [header |->
                       [title |-> self.card_header,
                        subtitle |-> StrOr(self.space_name, default_subtitle),
                        imageUrl |-> get_prowler_avatar,
                        imageType |-> "SQUARE"],
                    sections |-> <<identity_section,
                                   statistics_section.value,
                                   BuildParametersSection(args)>>]]
            >>])

---------------------------------------------------------------------------
(* The HTTP transport: what requests.post does is chosen by the environment *)

\* requests.post returned a response
Response(status_code, text) ==
    [kind |-> "response", status_code |-> status_code, text |-> text, exc |-> NoExc]
\* requests.post raised
PostRaises(cls) ==
    [kind |-> "raise", status_code |-> 0, text |-> "", exc |-> Error(cls)]
\* requests.post returned a response whose text cannot be read: response.text
\* raises exc
UnreadableResponse(status_code) ==
    [kind |-> "unreadable", status_code |-> status_code, text |-> "",
     exc |-> Error("RuntimeError")]
\* requests.post was not called
NoPost == [kind |-> "none", status_code |-> 0, text |-> "", exc |-> NoExc]

Digits == {"0", "1", "2", "3", "4", "5", "6", "7", "8", "9"}

DigitValue(c) ==
    CASE c = "0" -> 0 [] c = "1" -> 1 [] c = "2" -> 2 [] c = "3" -> 3 [] c = "4" -> 4
      [] c = "5" -> 5 [] c = "6" -> 6 [] c = "7" -> 7 [] c = "8" -> 8 [] OTHER -> 9

RECURSIVE DecimalValue(_)
DecimalValue(str) ==
    IF str = "" THEN 0
    ELSE 10 * DecimalValue(SubSeq(str, 1, Len(str) - 1))
         + DigitValue(SubSeq(str, Len(str), Len(str)))

\* a JSON number without sign, fraction or exponent
IsJsonInt(str) ==
    /\ str # ""
    /\ \A i \in 1..Len(str) : SubSeq(str, i, i) \in Digits
    /\ (Len(str) = 1 \/ SubSeq(str, 1, 1) # "0")

\* response.json() on a body without whitespace, for the JSON documents
\* built from integers, null, true, false, {} and one-element or empty
\* arrays; every other text raises JSONDecodeError, a ValueError.
RECURSIVE ResponseJson(_)
ResponseJson(text) ==
    IF IsJsonInt(text) THEN Return(PyInt(DecimalValue(text)))
    ELSE IF text = "null" THEN Return(PyNone)
    ELSE IF text = "true" THEN Return(PyBool(1))
    ELSE IF text = "false" THEN Return(PyBool(0))
    ELSE IF text = "{}" THEN Return(PyDict)
    ELSE IF Len(text) >= 2 /\ SubSeq(text, 1, 1) = "[" /\ SubSeq(text, Len(text), Len(text)) = "]"
    THEN LET inner == SubSeq(text, 2, Len(text) - 1)
         IN IF inner = "" THEN Return(PyList(<<>>))
            ELSE LET item == ResponseJson(inner)
                 IN IF item.raised THEN item ELSE Return(PyList(<<item.value>>))
    ELSE Raise(Error("JSONDecodeError"))

\* isinstance(e, ValueError)
IsValueError(e) == e.cls \in {"ValueError", "JSONDecodeError"}

\* variant: a body that is no JSON is dropped
SafeResponseContentWithoutText(response) ==
    IF response.kind = "unreadable" THEN Raise(response.exc)
    ELSE IF response.text # ""
    THEN LET parsed == ResponseJson(response.text)
         IN IF parsed.raised /\ IsValueError(parsed.exc)
            THEN Return(PyNone)
            ELSE parsed
    ELSE Return(PyNone)

\* GoogleChat.__safe_response_content
SafeResponseContent(response) ==
    IF response.kind = "unreadable" THEN Raise(response.exc)
    ELSE IF response.text # ""
    THEN LET parsed == ResponseJson(response.text)
         IN IF parsed.raised /\ IsValueError(parsed.exc)
            THEN Return(PyStr(response.text))
            ELSE parsed
    ELSE Return(PyNone)

\* the f-string of the non-2xx message
ReturnedMessage(response) ==
    "Google Chat webhook returned " \o ToString(response.status_code) \o ": " \o response.text

PostCall(url, payload) ==
    [url |-> url, json |-> payload, timeout |-> REQUEST_TIMEOUT_SECONDS]

---------------------------------------------------------------------------
(* GoogleChat.send *)

\* variant: a POST that fails or is refused is sent a second time
SendTryAgain(self, default_subtitle, table, stats, args, post) ==
    LET identity_logo == get_provider_identity_and_logo(self.provider)
        payload == BuildMessage(self, default_subtitle, identity_logo[1],
                                identity_logo[2], stats, args)
    IN IF payload.raised
       THEN [out |-> payload, table |-> table, posted |-> <<>>]
       ELSE LET call == PostCall(self.webhook_url, payload.value)
            IN IF post.kind = "raise"
               THEN [out |-> Raise(post.exc), table |-> table, posted |-> <<call, call>>]
               ELSE IF 200 <= post.status_code /\ post.status_code < 300
               THEN [out |-> SafeResponseContent(post), table |-> table, posted |-> <<call>>]
               ELSE IF post.kind = "unreadable"
               THEN [out |-> Raise(post.exc), table |-> table, posted |-> <<call>>]
               ELSE LET e == GoogleChatSendMessageError(table, THIS_FILE, NoExc,
                                                        ReturnedMessage(post))
                    IN [out |-> Raise(e.exc), table |-> e.table, posted |-> <<call, call>>]

\* variant: the status of the response is not looked at
SendTryIgnoresStatus(self, default_subtitle, table, stats, args, post) ==
    LET identity_logo == get_provider_identity_and_logo(self.provider)
        payload == BuildMessage(self, default_subtitle, identity_logo[1],
                                identity_logo[2], stats, args)
    IN IF payload.raised
       THEN [out |-> payload, table |-> table, posted |-> <<>>]
       ELSE LET calls == <<PostCall(self.webhook_url, payload.value)>>
            IN IF post.kind = "raise"
               THEN [out |-> Raise(post.exc), table |-> table, posted |-> calls]
               ELSE [out |-> SafeResponseContent(post), table |-> table, posted |-> calls]

\* the try block
SendTry(self, default_subtitle, table, stats, args, post) ==
    LET identity_logo == get_provider_identity_and_logo(self.provider)
        payload == BuildMessage(self, default_subtitle, identity_logo[1],
                                identity_logo[2], stats, args)
    IN IF payload.raised
       THEN [out |-> payload, table |-> table, posted |-> <<>>]
       ELSE LET calls == <<PostCall(self.webhook_url, payload.value)>>
            IN IF post.kind = "raise"
               THEN [out |-> Raise(post.exc), table |-> table, posted |-> calls]
               ELSE IF 200 <= post.status_code /\ post.status_code < 300
               THEN [out |-> SafeResponseContent(post), table |-> table, posted |-> calls]
               ELSE IF post.kind = "unreadable"
               THEN [out |-> Raise(post.exc), table |-> table, posted |-> calls]
               ELSE LET e == GoogleChatSendMessageError(table, THIS_FILE, NoExc,
                                                        ReturnedMessage(post))
                    IN [out |-> Raise(e.exc), table |-> e.table, posted |-> calls]

\* variant: without the clause that re-raises GoogleChatSendMessageError
SendExceptWithoutReraise(tried) ==
    IF ~tried.out.raised THEN tried
    ELSE IF IsRequestException(tried.out.exc)
    THEN LET e == GoogleChatClientError(tried.table, THIS_FILE, tried.out.exc,
                                        "Failed to call Google Chat webhook")
         IN [out |-> Raise(e.exc), table |-> e.table, posted |-> tried.posted]
    ELSE LET e == GoogleChatClientError(tried.table, THIS_FILE, tried.out.exc,
                                        "Unexpected error building Google Chat message")
         IN [out |-> Raise(e.exc), table |-> e.table, posted |-> tried.posted]

\* variant: without the last clause, `except Exception`
SendExceptWithoutCatchAll(tried) ==
    IF ~tried.out.raised THEN tried
    ELSE IF tried.out.exc.cls = "GoogleChatSendMessageError" THEN tried
    ELSE IF IsRequestException(tried.out.exc)
    THEN LET e == GoogleChatClientError(tried.table, THIS_FILE, tried.out.exc,
                                        "Failed to call Google Chat webhook")
         IN [out |-> Raise(e.exc), table |-> e.table, posted |-> tried.posted]
    ELSE tried

\* the except clauses, in order
SendExcept(tried) ==
    IF ~tried.out.raised THEN tried
    ELSE IF tried.out.exc.cls = "GoogleChatSendMessageError" THEN tried
    ELSE IF IsRequestException(tried.out.exc)
    THEN LET e == GoogleChatClientError(tried.table, THIS_FILE, tried.out.exc,
                                        "Failed to call Google Chat webhook")
         IN [out |-> Raise(e.exc), table |-> e.table, posted |-> tried.posted]
    ELSE LET e == GoogleChatClientError(tried.table, THIS_FILE, tried.out.exc,
                                        "Unexpected error building Google Chat message")
         IN [out |-> Raise(e.exc), table |-> e.table, posted |-> tried.posted]

send(self, default_subtitle, table, stats, args, post) ==
    SendExcept(SendTry(self, default_subtitle, table, stats, args, post))

---------------------------------------------------------------------------
(* GoogleChat.test_connection *)

\* prowler.providers.common.models.Connection; error is NoExc for None
Connection(is_connected, error) ==
    [type |-> "Connection", is_connected |-> is_connected, error |-> error]
\* Connection(error=exception): is_connected takes its default
ConnectionWithError(exception) == Connection(FALSE, exception)

TestPayload ==
    [cardsV2 |-> <<
        [cardId |-> "prowler-test",
         card |->
            [header |->
                [title |-> "Prowler Google Chat Integration",
                 subtitle |-> "Connection test",
                 imageUrl |-> get_prowler_avatar,
                 imageType |-> "SQUARE"],
             sections |-> <<
                [widgets |-> <<
                    [textParagraph |->
                        [text |-> "This is a test message from Prowler to verify webhook connectivity."]]
                >>]
             >>]]
    >>]

\* variant: the flag is not looked at
RaiseAlways(raise_on_exception, exception) == Raise(exception)

\* `if raise_on_exception: raise exception` / `return Connection(error=exception)`
RaiseOrReturn(raise_on_exception, exception) ==
    IF raise_on_exception THEN Raise(exception) ELSE Return(ConnectionWithError(exception))

\* variant: the POST is sent to the candidate before it is validated
TestConnectionTryPostFirst(table, webhook_url, raise_on_exception, post) ==
    LET validated == ValidateWebhookUrl(table, webhook_url)
        calls == <<PostCall(webhook_url.s, TestPayload)>>
    IN IF validated.out.raised
       THEN [out |-> validated.out, table |-> validated.table, posted |-> calls]
       ELSE IF post.kind = "raise"
       THEN [out |-> Raise(post.exc), table |-> table, posted |-> calls]
       ELSE IF 200 <= post.status_code /\ post.status_code < 300
       THEN [out |-> Return(Connection(TRUE, NoExc)), table |-> table, posted |-> calls]
       ELSE IF post.kind = "unreadable"
       THEN [out |-> Raise(post.exc), table |-> table, posted |-> calls]
       ELSE LET e == GoogleChatSendMessageError(table, THIS_FILE, NoExc,
                                                ReturnedMessage(post))
            IN [out |-> IF raise_on_exception THEN Raise(e.exc)
                        ELSE Return(ConnectionWithError(e.exc)),
                table |-> e.table, posted |-> calls]

\* the try block
TestConnectionTry(table, webhook_url, raise_on_exception, post) ==
    LET validated == ValidateWebhookUrl(table, webhook_url)
    IN IF validated.out.raised
       THEN [out |-> validated.out, table |-> validated.table, posted |-> <<>>]
       ELSE LET calls == <<PostCall(validated.out.value.s, TestPayload)>>
            IN IF post.kind = "raise"
               THEN [out |-> Raise(post.exc), table |-> table, posted |-> calls]
               ELSE IF 200 <= post.status_code /\ post.status_code < 300
               THEN [out |-> Return(Connection(TRUE, NoExc)), table |-> table, posted |-> calls]
               ELSE IF post.kind = "unreadable"
               THEN [out |-> Raise(post.exc), table |-> table, posted |-> calls]
               ELSE LET e == GoogleChatSendMessageError(table, THIS_FILE, NoExc,
                                                        ReturnedMessage(post))
                    IN [out |-> IF raise_on_exception THEN Raise(e.exc)
                                ELSE Return(ConnectionWithError(e.exc)),
                        table |-> e.table, posted |-> calls]

\* variant: a transport failure is wrapped only when it is raised; the
\* returned result reports it as a rejected message
TestConnectionExceptTwoKinds(tried, raise_on_exception) ==
    IF ~tried.out.raised THEN tried
    ELSE IF IsGoogleChatBaseException(tried.out.exc)
    THEN [tried EXCEPT !.out = RaiseOrReturn(raise_on_exception, tried.out.exc)]
    ELSE IF raise_on_exception
    THEN LET e == GoogleChatClientError(tried.table, THIS_FILE, tried.out.exc,
                                        "Failed to reach Google Chat webhook")
         IN [out |-> Raise(e.exc), table |-> e.table, posted |-> tried.posted]
    ELSE LET e == GoogleChatSendMessageError(tried.table, THIS_FILE, tried.out.exc,
                                             "Failed to reach Google Chat webhook")
         IN [out |-> Return(ConnectionWithError(e.exc)),
             table |-> e.table, posted |-> tried.posted]

\* the except clauses, in order
TestConnectionExcept(tried, raise_on_exception) ==
    IF ~tried.out.raised THEN tried
    ELSE IF tried.out.exc.cls = "GoogleChatInvalidWebhookError"
    THEN [tried EXCEPT !.out = RaiseOrReturn(raise_on_exception, tried.out.exc)]
    ELSE IF IsGoogleChatBaseException(tried.out.exc)
    THEN [tried EXCEPT !.out = RaiseOrReturn(raise_on_exception, tried.out.exc)]
    ELSE IF IsRequestException(tried.out.exc)
    THEN LET e == GoogleChatClientError(tried.table, THIS_FILE, tried.out.exc,
                                        "Failed to reach Google Chat webhook")
         IN [out |-> RaiseOrReturn(raise_on_exception, e.exc),
             table |-> e.table, posted |-> tried.posted]
    ELSE LET e == GoogleChatClientError(tried.table, THIS_FILE, tried.out.exc,
                                        "Unexpected error testing Google Chat webhook")
         IN [out |-> RaiseOrReturn(raise_on_exception, e.exc),
             table |-> e.table, posted |-> tried.posted]

test_connection(table, webhook_url, raise_on_exception, post) ==
    TestConnectionExcept(TestConnectionTry(table, webhook_url, raise_on_exception, post),
                         raise_on_exception)

---------------------------------------------------------------------------
(* GoogleChat.__init__ *)

NoProvider ==
    [has_type |-> FALSE, type |-> "", readable |-> FALSE, account |-> "",
     project_ids |-> <<>>, subscriptions |-> <<>>]

NoNotifier ==
    [constructed |-> FALSE, webhook_url |-> "", provider |-> NoProvider,
     space_name |-> "", card_header |-> ""]

\* space_name and card_header are "" for None
GoogleChatInit(table, webhook_url, provider, space_name, card_header) ==
    LET validated == ValidateWebhookUrl(table, webhook_url)
    IN IF validated.out.raised
       THEN [out |-> validated.out, table |-> validated.table, self |-> NoNotifier]
       ELSE [out |-> Return(PyNone), table |-> validated.table,
             self |-> [constructed |-> TRUE,
                       webhook_url |-> validated.out.value.s,
                       provider |-> provider,
                       space_name |-> space_name,
                       card_header |-> StrOr(card_header, DEFAULT_CARD_HEADER)]]

\* os.getenv("AUTH_URL") or os.getenv("PROWLER_URL") or "https://prowler.com";
\* an unset variable is ""
DefaultSubtitle(env) ==
    StrOr(env.AUTH_URL, StrOr(env.PROWLER_URL, "https://prowler.com"))

---------------------------------------------------------------------------
(* Inputs *)

UrlPieces == {"https://chat.googleapis.com", "/", "http://chat.googleapis.com", "v1"}
\* every candidate of at most MaxUrlParts pieces, and three that are no strings
AllUrls ==
    {PyStr(str) : str \in Concats(UrlPieces, MaxUrlParts)} \cup {PyNone, PyInt(0), PyInt(5)}

WEBHOOK_URL == "https://chat.googleapis.com/v1/spaces/AAAA/messages?key=fake&token=fake"
UrlSamples ==
    {PyNone, PyInt(5), PyStr(""), PyStr("https://invalid"),
     PyStr(WEBHOOK_PREFIX), PyStr(WEBHOOK_URL)}

AwsProvider ==
    [has_type |-> TRUE, type |-> "aws", readable |-> TRUE, account |-> "123456789012",
     project_ids |-> <<>>, subscriptions |-> <<>>]

\* a provider of a type that get_provider_identity_and_logo does not know
UnknownProvider ==
    [has_type |-> TRUE, type |-> "kubernetes", readable |-> TRUE, account |-> "",
     project_ids |-> <<>>, subscriptions |-> <<>>]
GcpProvider ==
    [has_type |-> TRUE, type |-> "gcp", readable |-> TRUE, account |-> "",
     project_ids |-> <<"project1", "project2">>, subscriptions |-> <<>>]
AzureProvider ==
    [has_type |-> TRUE, type |-> "azure", readable |-> TRUE, account |-> "",
     project_ids |-> <<>>,
     subscriptions |-> << <<"Subscription 1", "00000000-0000-0000-0000-000000000000">> >>]
\* the provider, and the provider with identity data that cannot be read
Unreadable(provider) == [provider EXCEPT !.readable = FALSE]
ProviderSamples ==
    {NoProvider, UnknownProvider, AwsProvider, GcpProvider, AzureProvider,
     Unreadable(AwsProvider), Unreadable(GcpProvider), Unreadable(AzureProvider)}

\* build_stats() of the tests
BuildStats ==
    StatsDict([total_pass |-> 12, total_fail |-> 10,
               total_critical_severity_pass |-> 4, total_critical_severity_fail |-> 4,
               total_high_severity_pass |-> 1, total_high_severity_fail |-> 1,
               total_medium_severity_pass |-> 1, total_medium_severity_fail |-> 2,
               total_low_severity_pass |-> 3, total_low_severity_fail |-> 2,
               resources_count |-> 20, findings_count |-> 22])
StatsSamples == {BuildStats, StatsDict(<<>>), StatsNone}
\* build_stats() without the key findings_count
StatsWithoutFindingsCount ==
    StatsDict([key \in DOMAIN BuildStats.d \ {"findings_count"} |-> BuildStats.d[key]])

\* every dict holding any of the three percentage fields, each in 0..MaxCount
PercentageFields == {"total_pass", "total_fail", "findings_count"}
PercentageStats ==
    {StatsDict(d) : d \in UNION {[D -> 0..MaxCount] : D \in SUBSET PercentageFields}}

\* every dict holding any subset of the fields of build_stats()
StatsFields == DOMAIN BuildStats.d
FieldSubsetStats ==
    {StatsDict([key \in D |-> BuildStats.d[key]]) : D \in SUBSET StatsFields}

ARGS == "--google-chat"

\* the environments with each of the two variables unset or set
EnvironNames == {"AUTH_URL", "PROWLER_URL"}
EnvironValues == {"", "https://prowler.internal", "https://prowler.example"}
EnvironSamples ==
    {[AUTH_URL |-> auth_url, PROWLER_URL |-> prowler_url] :
        auth_url \in {"", "https://prowler.internal"},
        prowler_url \in {"", "https://prowler.example"}}
SpaceNames == {"", "Security Space"}
\* the message overrides given to an error; "" is no override
MessageSamples == {"", "custom message", "another message"}
ArgsSamples == {"", ARGS, " ", "-M csv --google-chat"}

TransportErrors == {"ConnectionError", "Timeout", "RequestException"}
\* an error of requests.post that is no RequestException
UnexpectedErrors == {"RuntimeError"}
PostErrors == {PostRaises(cls) : cls \in TransportErrors \cup UnexpectedErrors}

BodyPieces == {"1", "[", "]", "ok"}
AllBodies == Concats(BodyPieces, MaxBodyParts)
Statuses == {199, 200, 299, 300, 500}
AllResponses == {Response(status, text) : status \in Statuses, text \in AllBodies}

PostSamples ==
    {Response(200, ""), Response(200, "[1]"), Response(200, "ok"), Response(500, "oops")}
    \cup PostErrors
UnreadableSamples == {UnreadableResponse(200), UnreadableResponse(500)}

---------------------------------------------------------------------------
(* The operations *)

\* the record of one operation: posts is the number of requests.post calls
\* it made, post what requests.post did (NoPost when it was not called)
Call(op, url, raise_on_exception, stats, args, posts, post, out) ==
    [op |-> op, url |-> url, raise_on_exception |-> raise_on_exception,
     stats |-> stats, args |-> args, posts |-> posts,
     post |-> IF posts = 0 THEN NoPost ELSE post, out |-> out]

NoCall == Call("none", PyNone, FALSE, StatsNone, "", 0, NoPost, Return(PyNone))

\* GoogleChat(webhook_url, provider, space_name, card_header)
Construct(urls, providers, space_names, card_headers) ==
    \E webhook_url \in urls, provider \in providers,
       space_name \in space_names, card_header \in card_headers :
        \E r \in {GoogleChatInit(GOOGLE_CHAT_ERROR_CODES, webhook_url, provider,
                                 space_name, card_header)} :
           /\ GOOGLE_CHAT_ERROR_CODES' = r.table
           /\ notifier' = IF r.out.raised THEN notifier ELSE r.self
           /\ posted' = <<>>
           /\ last' = Call("__init__", webhook_url, FALSE, StatsNone, "", 0, NoPost, r.out)
           /\ prev' = NoCall
           /\ UNCHANGED <<DEFAULT_SUBTITLE, environ>>

\* notifier.send(stats, args)
Send(all_stats, all_args, posts) ==
    /\ notifier.constructed
    /\ \E stats \in all_stats, args \in all_args, post \in posts :
        \E r \in {send(notifier, DEFAULT_SUBTITLE, GOOGLE_CHAT_ERROR_CODES,
                       stats, args, post)} :
           /\ GOOGLE_CHAT_ERROR_CODES' = r.table
           /\ posted' = r.posted
           /\ last' = Call("send", PyStr(notifier.webhook_url), FALSE, stats, args,
                           Len(r.posted), post, r.out)
           /\ prev' = NoCall
           /\ UNCHANGED <<notifier, DEFAULT_SUBTITLE, environ>>

\* GoogleChat.test_connection(webhook_url, raise_on_exception)
TestConnection(urls, flags, posts) ==
    \E webhook_url \in urls, raise_on_exception \in flags, post \in posts :
        \E r \in {test_connection(GOOGLE_CHAT_ERROR_CODES, webhook_url,
                                  raise_on_exception, post)} :
           /\ GOOGLE_CHAT_ERROR_CODES' = r.table
           /\ posted' = r.posted
           /\ last' = Call("test_connection", webhook_url, raise_on_exception, StatsNone, "",
                           Len(r.posted), post, r.out)
           /\ prev' = IF /\ last.op = "test_connection"
                         /\ last.raise_on_exception # raise_on_exception
                         /\ last.url = webhook_url
                         /\ last.post = (IF r.posted = <<>> THEN NoPost ELSE post)
                      THEN last ELSE NoCall
           /\ UNCHANGED <<notifier, DEFAULT_SUBTITLE, environ>>

\* cls(message=message), or cls() when message is "": an error of the
\* integration is constructed by a caller; last.url holds the class and
\* last.args the message given
NewError(classes, messages) ==
    \E cls \in classes, message \in messages :
        \E r \in {BaseExceptionInit(GOOGLE_CHAT_ERROR_CODES, cls, CodeOf(cls),
                                    "", NoExc, message)} :
           /\ GOOGLE_CHAT_ERROR_CODES' = r.table
           /\ posted' = <<>>
           /\ last' = [NoCall EXCEPT !.op = "exception", !.url = PyStr(cls),
                                     !.args = message, !.out = Return(r.exc)]
           /\ prev' = NoCall
           /\ UNCHANGED <<notifier, DEFAULT_SUBTITLE, environ>>

\* os.environ[name] = value (mock.patch.dict(os.environ, ...) of the tests);
\* the module is not imported again
Setenv(names, values) ==
    \E name \in names, value \in values :
        /\ environ' = [environ EXCEPT ![name] = value]
        /\ posted' = <<>>
        /\ last' = [NoCall EXCEPT !.op = "setenv", !.url = PyStr(name), !.args = value]
        /\ prev' = NoCall
        /\ UNCHANGED <<GOOGLE_CHAT_ERROR_CODES, notifier, DEFAULT_SUBTITLE>>

---------------------------------------------------------------------------
(* Specifications *)

NoEnviron == [AUTH_URL |-> "", PROWLER_URL |-> ""]

\* the module was imported with neither variable set; nothing is constructed
Init ==
    /\ GOOGLE_CHAT_ERROR_CODES = ErrorTable
    /\ notifier = NoNotifier
    /\ posted = <<>>
    /\ last = NoCall
    /\ prev = NoCall
    /\ environ = NoEnviron
    /\ DEFAULT_SUBTITLE = DefaultSubtitle(environ)

\* any sequence of constructions, sends and connection tests
Next ==
    \/ Construct(UrlSamples, {AwsProvider}, {""}, {""})
    \/ Send(StatsSamples, {ARGS}, PostSamples)
    \/ TestConnection(UrlSamples, BOOLEAN, PostSamples)

Spec == Init /\ [][Next]_vars

\* a notifier was constructed as the tests construct it
Constructed ==
    GoogleChatInit(ErrorTable, PyStr(WEBHOOK_URL), AwsProvider, "", "").self

InitConstructed ==
    /\ GOOGLE_CHAT_ERROR_CODES = ErrorTable
    /\ notifier = Constructed
    /\ posted = <<>>
    /\ last = NoCall
    /\ prev = NoCall
    /\ environ = NoEnviron
    /\ DEFAULT_SUBTITLE = DefaultSubtitle(environ)

\* one call on a fresh module
FirstCall == last = NoCall

\* URL validation over every candidate
NextValidate ==
    \/ FirstCall /\ Construct(AllUrls, {AwsProvider}, {""}, {""})
    \/ FirstCall /\ TestConnection(AllUrls, BOOLEAN, {Response(200, "")})

SpecValidate == Init /\ [][NextValidate]_vars

\* response classification over every status and body
NextResponse ==
    \/ FirstCall /\ Send({BuildStats}, {ARGS}, AllResponses \cup PostErrors)
    \/ FirstCall /\ TestConnection({PyStr(WEBHOOK_URL)}, BOOLEAN,
                                    AllResponses \cup PostErrors)

SpecResponse == InitConstructed /\ [][NextResponse]_vars

\* the statistics section over every value of the percentage fields
NextStats ==
    /\ FirstCall
    /\ Send(PercentageStats, {ARGS}, {Response(200, "")})

SpecStats == InitConstructed /\ [][NextStats]_vars

\* the payload builder over every subset of the stats fields, with a
\* provider that has an identity and one that has none
InitFields ==
    /\ GOOGLE_CHAT_ERROR_CODES = ErrorTable
    /\ notifier \in {GoogleChatInit(ErrorTable, PyStr(WEBHOOK_URL), provider, "", "").self :
                        provider \in {AwsProvider, NoProvider}}
    /\ posted = <<>>
    /\ last = NoCall
    /\ prev = NoCall
    /\ environ = NoEnviron
    /\ DEFAULT_SUBTITLE = DefaultSubtitle(environ)

NextFields ==
    /\ FirstCall
    /\ Send(FieldSubsetStats, {"", ARGS}, {Response(200, "")})

SpecFields == InitFields /\ [][NextFields]_vars

\* the module is imported under any environment, which changes afterwards
InitSubtitle ==
    /\ GOOGLE_CHAT_ERROR_CODES = ErrorTable
    /\ notifier = NoNotifier
    /\ posted = <<>>
    /\ last = NoCall
    /\ prev = NoCall
    /\ environ \in EnvironSamples
    /\ DEFAULT_SUBTITLE = DefaultSubtitle(environ)

NextSubtitle ==
    \/ Setenv(EnvironNames, EnvironValues)
    \/ Construct({PyStr(WEBHOOK_URL)}, {AwsProvider}, SpaceNames, {""})
    \/ Send({BuildStats}, {ARGS}, {Response(200, "")})

SpecSubtitle == InitSubtitle /\ [][NextSubtitle]_vars

\* one construction with any provider, then one send or one connection test
NextIdentity ==
    \/ FirstCall /\ Construct({PyStr(WEBHOOK_URL)}, ProviderSamples, {""}, {""})
    \/ /\ last.op = "__init__"
       /\ Send(StatsSamples \cup {StatsWithoutFindingsCount}, ArgsSamples,
               PostSamples \cup UnreadableSamples)
    \/ /\ last.op = "__init__"
       /\ TestConnection(UrlSamples, BOOLEAN, PostSamples \cup UnreadableSamples)

SpecIdentity == Init /\ [][NextIdentity]_vars

\* errors constructed with and without a message override, between sends
\* and connection tests that fail or succeed
NextErrors ==
    \/ NewError(GoogleChatClasses, MessageSamples)
    \/ Send({BuildStats}, {ARGS}, {Response(200, ""), Response(500, "oops")})
    \/ TestConnection({PyStr("https://invalid"), PyStr(WEBHOOK_URL)}, {FALSE},
                      {PostRaises("Timeout")})

SpecErrors == InitConstructed /\ [][NextErrors]_vars

---------------------------------------------------------------------------
(* Properties *)

\* the error an operation ended with: raised, or carried by the returned
\* Connection; NoExc when there is none
ErrorOf(call) ==
    IF call.out.raised THEN call.out.exc
    ELSE IF call.op = "test_connection" THEN call.out.value.error
    ELSE NoExc

\* a non-empty string that begins with the 28 characters of the prefix
IsGoodUrl(url) ==
    /\ url.type = "str"
    /\ url.s # ""
    /\ Len(url.s) >= 28
    /\ \A i \in 1..28 :
          SubSeq(url.s, i, i) = SubSeq("https://chat.googleapis.com/", i, i)

IsSuccess(post) ==
    post.kind = "response" /\ post.status_code >= 200 /\ post.status_code < 300

IsFailureStatus(post) ==
    post.kind = "response" /\ (post.status_code < 200 \/ post.status_code >= 300)

\* the value of a stats field, 0 when absent
Count(call, key) ==
    IF key \in DOMAIN call.stats.d THEN call.stats.d[key] ELSE 0

\* the text of widget i of the statistics section of the payload POSTed
StatisticsText(i) ==
    posted[1].json.cardsV2[1].card.sections[2].widgets[i].decoratedText.text

\* hundredths is count / total * 100 to the nearest hundredth
IsNearestHundredth(hundredths, count, total) ==
    LET diff == hundredths * total - count * 10000
    IN 2 * diff <= total /\ -2 * diff <= total

\* C1: for a response with a status in [200,300), send raises nothing and
\* returns the parsed JSON value when the body is non-empty JSON, the raw
\* body text when the body is non-empty and no JSON, None when it is empty.
C1_SendReturnsContent ==
    (last.op = "send" /\ IsSuccess(last.post)) =>
        /\ ~last.out.raised
        /\ last.out.value =
              (IF last.post.text = "" THEN PyNone
               ELSE IF ResponseJson(last.post.text).raised THEN PyStr(last.post.text)
               ELSE ResponseJson(last.post.text).value)
        /\ (last.post.text = "11" => last.out.value = PyInt(11))
        /\ (last.post.text = "[]" => last.out.value = PyList(<<>>))
        /\ (last.post.text = "[1]" => last.out.value = PyList(<<PyInt(1)>>))
        /\ (last.post.text = "ok" => last.out.value = PyStr("ok"))
        /\ (last.post.text = "1]" => last.out.value = PyStr("1]"))

C1_Witness ==
    /\ last.op = "send"
    /\ last.post = Response(299, "ok")
    /\ last.out = Return(PyStr("ok"))

\* C2: for a response with a status below 200 or at or above 300, send and
\* test_connection with raise_on_exception true raise a
\* GoogleChatSendMessageError (not a GoogleChatClientError) whose message
\* contains the status code and the body text.
C2_FailureStatusRaisesSendMessageError ==
    (/\ last.op \in {"send", "test_connection"}
     /\ last.op = "test_connection" => last.raise_on_exception
     /\ IsFailureStatus(last.post)) =>
        /\ last.out.raised
        /\ last.out.exc.cls = "GoogleChatSendMessageError"
        /\ last.out.exc.code = 9002
        /\ Contains(last.out.exc.error_info.message, ToString(last.post.status_code))
        /\ Contains(last.out.exc.error_info.message, last.post.text)

C2_Witness ==
    /\ last.op = "test_connection"
    /\ last.raise_on_exception
    /\ last.post = Response(300, "ok")
    /\ last.out.raised
    /\ last.out.exc.cls = "GoogleChatSendMessageError"
    /\ last.out.exc.error_info.message = "Google Chat webhook returned 300: ok"

\* C3: when requests.post fails at transport level (connection error,
\* timeout, any RequestException), send and test_connection report a
\* GoogleChatClientError carrying the transport error as original exception;
\* a timeout gives the same kind as every other transport failure.
C3_TransportFailureIsClientError ==
    (/\ last.op \in {"send", "test_connection"}
     /\ last.post.kind = "raise"
     /\ last.post.exc.cls \in TransportErrors) =>
        /\ last.op = "send" => last.out.raised
        /\ last.op = "test_connection" => (last.out.raised <=> last.raise_on_exception)
        /\ ErrorOf(last).cls = "GoogleChatClientError"
        /\ ErrorOf(last).code = 9000
        /\ ErrorOf(last).original_exception = last.post.exc

C3_Witness ==
    /\ last.op = "send"
    /\ last.post = PostRaises("Timeout")
    /\ last.out.raised
    /\ last.out.exc.cls = "GoogleChatClientError"
    /\ last.out.exc.original_exception = Error("Timeout")

\* C4: test_connection with raise_on_exception false never raises, whatever
\* the URL and the transport outcome: an invalid URL, a non-2xx status and a
\* failure of requests.post each return a Connection with is_connected false
\* and an error of the kind of that path.
C4_NotRaisingNeverRaises ==
    (last.op = "test_connection" /\ ~last.raise_on_exception) =>
        /\ ~last.out.raised
        /\ last.out.value.type = "Connection"
        /\ ~IsGoodUrl(last.url) =>
              /\ ~last.out.value.is_connected
              /\ last.out.value.error.cls = "GoogleChatInvalidWebhookError"
        /\ (IsGoodUrl(last.url) /\ IsFailureStatus(last.post)) =>
              /\ ~last.out.value.is_connected
              /\ last.out.value.error.cls = "GoogleChatSendMessageError"
        /\ (IsGoodUrl(last.url) /\ last.post.kind = "raise") =>
              /\ ~last.out.value.is_connected
              /\ last.out.value.error.cls = "GoogleChatClientError"
        /\ (IsGoodUrl(last.url) /\ IsSuccess(last.post)) =>
              last.out.value = Connection(TRUE, NoExc)

C4_Witness ==
    /\ last.op = "test_connection"
    /\ ~last.raise_on_exception
    /\ last.post = PostRaises("RuntimeError")
    /\ ~last.out.raised
    /\ ~last.out.value.is_connected
    /\ last.out.value.error.cls = "GoogleChatClientError"

\* C5: two runs of test_connection on the same URL with the same transport
\* outcome, one with raise_on_exception true and one with false: the first
\* raises an error exactly when the second returns a Connection that is not
\* connected, the two errors have the same kind and the same message, both
\* return a connected result in the same cases, and both make the same
\* number of POSTs.
C5_ModesDifferOnlyInPropagation ==
    prev.op = "test_connection" =>
        LET raising == IF prev.raise_on_exception THEN prev ELSE last
            returning == IF prev.raise_on_exception THEN last ELSE prev
        IN /\ raising.raise_on_exception /\ ~returning.raise_on_exception
           /\ raising.url = returning.url /\ raising.post = returning.post
           /\ ~returning.out.raised
           /\ raising.out.raised <=> ~returning.out.value.is_connected
           /\ raising.out.raised =>
                 /\ returning.out.value.error.cls = raising.out.exc.cls
                 /\ returning.out.value.error.code = raising.out.exc.code
                 /\ returning.out.value.error.error_info.message
                       = raising.out.exc.error_info.message
           /\ ~raising.out.raised =>
                 /\ raising.out.value = Connection(TRUE, NoExc)
                 /\ returning.out.value = Connection(TRUE, NoExc)
           /\ raising.posts = returning.posts

C5_Witness ==
    /\ prev.op = "test_connection"
    /\ prev.raise_on_exception
    /\ prev.post = Response(500, "oops")
    /\ prev.out.raised
    /\ prev.out.exc.cls = "GoogleChatSendMessageError"
    /\ last.op = "test_connection"
    /\ ~last.out.raised
    /\ last.out.value.error.cls = "GoogleChatSendMessageError"
    /\ last.posts = 1 /\ prev.posts = 1

\* C6: validation accepts a candidate exactly when it is a non-empty string
\* that starts with "https://chat.googleapis.com/", whatever follows, and
\* hands the string on unchanged; every other candidate fails with
\* GoogleChatInvalidWebhookError.  The constructor and test_connection apply
\* the same rule.
C6_ValidationRule ==
    /\ notifier.constructed => IsGoodUrl(PyStr(notifier.webhook_url))
    /\ last.op = "__init__" =>
          IF IsGoodUrl(last.url)
          THEN /\ ~last.out.raised
               /\ notifier.constructed
               /\ notifier.webhook_url = last.url.s
          ELSE /\ last.out.raised
               /\ last.out.exc.cls = "GoogleChatInvalidWebhookError"
               /\ notifier.constructed => notifier.webhook_url # last.url.s
    /\ last.op = "test_connection" =>
          IF IsGoodUrl(last.url)
          THEN /\ ErrorOf(last).cls # "GoogleChatInvalidWebhookError"
               /\ IsSuccess(last.post) => ErrorOf(last) = NoExc
               /\ Len(posted) = 1
               /\ posted[1].url = last.url.s
          ELSE /\ ErrorOf(last).cls = "GoogleChatInvalidWebhookError"
               /\ last.out.raised <=> last.raise_on_exception

C6_Witness ==
    /\ last.op = "__init__"
    /\ last.url = PyStr("https://chat.googleapis.com/v1")
    /\ ~last.out.raised
    /\ notifier.webhook_url = "https://chat.googleapis.com/v1"

\* C7 as claimed: every invocation of send makes exactly one POST, whatever
\* the stats, args, provider and response.
C7_ExactlyOnePost ==
    last.op = "send" => (last.posts = 1 /\ Len(posted) = 1)

\* C7 as amended: send makes at most one POST and never a second one after a
\* failure or a non-2xx status; it makes exactly one when stats is a dict,
\* and none when stats is no dict, where it raises GoogleChatClientError for
\* the AttributeError of building the payload.
C7_AtMostOnePost ==
    last.op = "send" =>
        /\ Len(posted) <= 1
        /\ last.posts = Len(posted)
        /\ last.stats.mapping => Len(posted) = 1
        /\ ~last.stats.mapping =>
              /\ posted = <<>>
              /\ last.out.raised
              /\ last.out.exc.cls = "GoogleChatClientError"
              /\ last.out.exc.original_exception = Error("AttributeError")

C7_Witness ==
    /\ last.op = "send"
    /\ last.stats = StatsNone
    /\ posted = <<>>
    /\ last.out.raised
    /\ last.out.exc.error_info.message = "Unexpected error building Google Chat message"

\* C8: GoogleChatInvalidWebhookError comes from validation only: the
\* constructor and test_connection (raising or not) given an invalid URL end
\* with it without any POST, an operation that ends with it has made no
\* POST, and every POST goes to a URL that passes validation.
C8_InvalidUrlNeverPosted ==
    /\ (last.op \in {"__init__", "test_connection"} /\ ~IsGoodUrl(last.url)) =>
          /\ posted = <<>>
          /\ last.posts = 0
          /\ ErrorOf(last).cls = "GoogleChatInvalidWebhookError"
    /\ ErrorOf(last).cls = "GoogleChatInvalidWebhookError" =>
          /\ posted = <<>>
          /\ last.post = NoPost
          /\ ~IsGoodUrl(last.url)
    /\ \A i \in 1..Len(posted) : IsGoodUrl(PyStr(posted[i].url))

C8_Witness ==
    /\ last.op = "test_connection"
    /\ ~last.raise_on_exception
    /\ last.url = PyStr("https://invalid")
    /\ ~last.out.raised
    /\ last.out.value.error.cls = "GoogleChatInvalidWebhookError"
    /\ posted = <<>>

\* C9: when findings_count is 0 or absent, the pass and the fail percentage
\* of the statistics section are both 0.0, whatever total_pass and
\* total_fail are (absent included), and no error occurs: the payload is
\* built and POSTed.
C9_NoFindingsIsZeroPercent ==
    (last.op = "send" /\ last.stats.mapping /\ Count(last, "findings_count") = 0) =>
        /\ Len(posted) = 1
        /\ IsSuccess(last.post) => ~last.out.raised
        /\ StatisticsText(1) =
              ":ok: *" \o ToString(Count(last, "total_pass")) \o " Passed findings* (0.0%)"
        /\ StatisticsText(2) =
              ":x: *" \o ToString(Count(last, "total_fail")) \o " Failed findings* (0.0%)"

C9_Witness ==
    /\ last.op = "send"
    /\ DOMAIN last.stats.d = {"total_pass", "total_fail"}
    /\ last.stats.d["total_pass"] = 12
    /\ last.stats.d["total_fail"] = 10
    /\ Len(posted) = 1
    /\ StatisticsText(1) = ":ok: *12 Passed findings* (0.0%)"
    /\ StatisticsText(2) = ":x: *10 Failed findings* (0.0%)"

\* C10: when findings_count is not 0, the pass and the fail percentage of
\* the statistics section are total_pass (total_fail) / findings_count * 100
\* to the nearest hundredth, an absent count being 0; total_pass = 12,
\* total_fail = 10, findings_count = 22 gives 54.55 and 45.45.
C10_PercentageIsRounded ==
    (last.op = "send" /\ last.stats.mapping /\ Count(last, "findings_count") # 0) =>
        LET total == Count(last, "findings_count")
            passed == Count(last, "total_pass")
            failed == Count(last, "total_fail")
            below(count) == (count * 10000) \div total
        IN /\ Len(posted) = 1
           /\ \E h \in {below(passed), below(passed) + 1} :
                 /\ IsNearestHundredth(h, passed, total)
                 /\ StatisticsText(1) = ":ok: *" \o ToString(passed)
                        \o " Passed findings* (" \o FloatRepr(h) \o "%)"
           /\ \E h \in {below(failed), below(failed) + 1} :
                 /\ IsNearestHundredth(h, failed, total)
                 /\ StatisticsText(2) = ":x: *" \o ToString(failed)
                        \o " Failed findings* (" \o FloatRepr(h) \o "%)"
           /\ (passed = 12 /\ failed = 10 /\ total = 22) =>
                 /\ StatisticsText(1) = ":ok: *12 Passed findings* (54.55%)"
                 /\ StatisticsText(2) = ":x: *10 Failed findings* (45.45%)"

C10_Witness ==
    /\ last.op = "send"
    /\ last.stats.mapping
    /\ DOMAIN last.stats.d = PercentageFields
    /\ last.stats.d["total_pass"] = 12
    /\ last.stats.d["total_fail"] = 10
    /\ last.stats.d["findings_count"] = 22
    /\ Len(posted) = 1
    /\ StatisticsText(1) = ":ok: *12 Passed findings* (54.55%)"
    /\ StatisticsText(2) = ":x: *10 Failed findings* (45.45%)"

\* the card of the payload POSTed
Card == posted[1].json.cardsV2[1].card

\* the severities line of the statistics section, an absent field being 0
SeveritiesLine(call, suffix) ==
    "*Severities:* Critical " \o ToString(Count(call, "total_critical_severity_" \o suffix))
    \o " - High " \o ToString(Count(call, "total_high_severity_" \o suffix))
    \o " - Medium " \o ToString(Count(call, "total_medium_severity_" \o suffix))
    \o " - Low " \o ToString(Count(call, "total_low_severity_" \o suffix))

\* C11: for every stats dict, whatever fields it lacks (all of them
\* included), with an identity or without one and with args or without, the
\* payload is built without an error and POSTed; its card has exactly three
\* sections: the identity section (environment line with the logo, then the
\* summary paragraph), the statistics section (three widgets) and the
\* parameters section, in this order; every count of the statistics section
\* that is missing from stats is printed as 0.
C11_BuilderNeverFails ==
    (last.op = "send" /\ last.stats.mapping) =>
        /\ Len(posted) = 1
        /\ IsSuccess(last.post) => ~last.out.raised
        /\ Len(posted[1].json.cardsV2) = 1
        /\ Len(Card.sections) = 3
        /\ Len(Card.sections[1].widgets) = 2
        /\ StartsWith(Card.sections[1].widgets[1].decoratedText.text, "*Environment*\n")
        /\ Card.sections[1].widgets[1].decoratedText.startIcon.altText = "Provider Logo"
        /\ DOMAIN Card.sections[1].widgets[2] = {"textParagraph"}
        /\ Len(Card.sections[2].widgets) = 3
        /\ StartsWith(StatisticsText(1),
                      ":ok: *" \o ToString(Count(last, "total_pass")) \o " Passed findings* (")
        /\ StartsWith(StatisticsText(2),
                      ":x: *" \o ToString(Count(last, "total_fail")) \o " Failed findings* (")
        /\ StatisticsText(3) =
              ":chart: *" \o ToString(Count(last, "resources_count")) \o " Scanned Resources*"
        /\ Card.sections[2].widgets[1].decoratedText.bottomText = SeveritiesLine(last, "pass")
        /\ Card.sections[2].widgets[2].decoratedText.bottomText = SeveritiesLine(last, "fail")
        /\ Card.sections[2].widgets[3].decoratedText.bottomText =
              "Total findings analysed: " \o ToString(Count(last, "findings_count"))
        /\ Len(Card.sections[3].widgets) = 1
        /\ StartsWith(Card.sections[3].widgets[1].textParagraph.text, "*Used parameters*\n")

C11_Witness ==
    /\ last.op = "send"
    /\ last.stats = StatsDict(<<>>)
    /\ last.args = ""
    /\ ~notifier.provider.has_type
    /\ ~last.out.raised
    /\ Len(posted) = 1
    /\ Len(Card.sections) = 3
    /\ StatisticsText(1) = ":ok: *0 Passed findings* (0.0%)"
    /\ StatisticsText(3) = ":chart: *0 Scanned Resources*"
    /\ Card.sections[2].widgets[2].decoratedText.bottomText
          = "*Severities:* Critical 0 - High 0 - Medium 0 - Low 0"
    /\ Card.sections[2].widgets[3].decoratedText.bottomText = "Total findings analysed: 0"

\* the text of the summary paragraph of the identity section POSTed
SummaryText == Card.sections[1].widgets[2].textParagraph.text

\* C12: for every stats dict, the summary paragraph of the identity section
\* is the greeting that ends with the findings_count value, an absent
\* findings_count counting as 0; it is never empty.
C12_SummaryIncludesCount ==
    (last.op = "send" /\ last.stats.mapping /\ Len(posted) = 1) =>
        /\ SummaryText # ""
        /\ StartsWith(SummaryText, "Hey there ")
        /\ Contains(SummaryText,
                    " with a total of *" \o ToString(Count(last, "findings_count"))
                    \o "* findings.")

\* C13: the subtitle of the card built by send is the space name given at
\* construction when there is one; else it is the value AUTH_URL has in the
\* environment when the message is built, whether it was set before or after
\* the module was loaded, else the value of PROWLER_URL, else
\* "https://prowler.com".
C13_SubtitleFollowsEnvironment ==
    (last.op = "send" /\ Len(posted) = 1) =>
        Card.header.subtitle =
            (IF notifier.space_name # "" THEN notifier.space_name
             ELSE IF environ.AUTH_URL # "" THEN environ.AUTH_URL
             ELSE IF environ.PROWLER_URL # "" THEN environ.PROWLER_URL
             ELSE "https://prowler.com")

\* the environment widget of the identity section POSTed
EnvironmentWidget == Card.sections[1].widgets[1].decoratedText

\* the provider has a type that identity resolution knows
IsKnownType(provider) == provider.has_type /\ provider.type \in {"aws", "gcp", "azure"}

\* C14: send never fails because of the provider: whatever the provider, a
\* stats dict is built into a payload and POSTed.  For a provider without a
\* type, with an unknown type, or with a known type whose identity data
\* cannot be read, the environment line is "Unknown provider" and the logo is
\* the default (AWS) logo; a provider-specific logo never goes with an empty
\* identity.  A readable provider of a known type gets its own identity and
\* logo.
C14_IdentityResolutionNeverRaises ==
    (last.op = "send" /\ last.stats.mapping) =>
        /\ Len(posted) = 1
        /\ IsSuccess(last.post) => ~last.out.raised
        /\ (~IsKnownType(notifier.provider) \/ ~notifier.provider.readable) =>
              /\ EnvironmentWidget.text = "*Environment*\nUnknown provider"
              /\ EnvironmentWidget.startIcon.imageUrl = aws_logo
        /\ EnvironmentWidget.text = "*Environment*\nUnknown provider" =>
              EnvironmentWidget.startIcon.imageUrl = aws_logo
        /\ (IsKnownType(notifier.provider) /\ notifier.provider.readable) =>
              /\ EnvironmentWidget.text # "*Environment*\nUnknown provider"
              /\ notifier.provider.type = "aws" =>
                    /\ EnvironmentWidget.text = "*Environment*\nAWS Account *123456789012*"
                    /\ EnvironmentWidget.startIcon.imageUrl = aws_logo
              /\ notifier.provider.type = "gcp" =>
                    /\ EnvironmentWidget.text
                          = "*Environment*\nGCP Projects *project1, project2*"
                    /\ EnvironmentWidget.startIcon.imageUrl = gcp_logo
              /\ notifier.provider.type = "azure" =>
                    /\ Contains(EnvironmentWidget.text, "Subscription 1")
                    /\ EnvironmentWidget.startIcon.imageUrl = azure_logo

C14_Witness ==
    /\ last.op = "send"
    /\ notifier.provider = Unreadable(GcpProvider)
    /\ last.post = Response(200, "")
    /\ ~last.out.raised
    /\ Len(posted) = 1
    /\ EnvironmentWidget.text = "*Environment*\nUnknown provider"
    /\ EnvironmentWidget.startIcon.imageUrl = aws_logo

\* the line of the parameters section POSTed, after the header
\* "*Used parameters*" and the line break (18 characters)
ParametersLine ==
    LET text == Card.sections[3].widgets[1].textParagraph.text
    IN SubSeq(text, 19, Len(text))

\* C15: the parameters section of the payload has exactly one widget, a
\* text paragraph that begins with the header "*Used parameters*" and a line
\* break; the quoted line after it is exactly prowler, with no space after
\* it, when args is empty, and prowler, one space and the args when args is
\* not empty (prowler --google-chat for --google-chat).
C15_ParametersLine ==
    (last.op = "send" /\ Len(posted) = 1) =>
        /\ Len(Card.sections[3].widgets) = 1
        /\ DOMAIN Card.sections[3].widgets[1] = {"textParagraph"}
        /\ StartsWith(Card.sections[3].widgets[1].textParagraph.text, "*Used parameters*\n")
        /\ last.args = "" => ParametersLine = "'prowler'"
        /\ last.args # "" =>
              /\ Len(ParametersLine) = Len(last.args) + 10
              /\ SubSeq(ParametersLine, 1, 9) = "'prowler "
              /\ SubSeq(ParametersLine, 10, Len(ParametersLine) - 1) = last.args
              /\ SubSeq(ParametersLine, Len(ParametersLine), Len(ParametersLine)) = "'"
        /\ last.args = "--google-chat" => ParametersLine = "'prowler --google-chat'"

C15_Witness ==
    /\ last.op = "send"
    /\ last.args = ""
    /\ Len(posted) = 1
    /\ Card.sections[3].widgets
          = << [textParagraph |-> [text |-> "*Used parameters*\n'prowler'"]] >>

\* requests.post raised a RequestException
IsTransportFailure(post) == post.kind = "raise" /\ post.exc.cls \in TransportErrors

\* reading the identity of the provider raises inside
\* get_provider_identity_and_logo
IdentityFails(provider) ==
    ~provider.has_type \/ (IsKnownType(provider) /\ ~provider.readable)

\* C16 as claimed: send ends with no error other than
\* GoogleChatSendMessageError and GoogleChatClientError, and every failure
\* that is neither a non-2xx status nor a transport failure, a failure while
\* resolving the identity of the provider included, is raised as
\* GoogleChatClientError with the message "Unexpected error building Google
\* Chat message" and the original error as its cause.
C16_EveryFailureIsClientError ==
    last.op = "send" =>
        /\ last.out.raised =>
              last.out.exc.cls \in {"GoogleChatSendMessageError", "GoogleChatClientError"}
        /\ (/\ \/ ~last.stats.mapping
                \/ last.post.kind \in {"raise", "unreadable"}
                \/ IdentityFails(notifier.provider)
             /\ ~IsFailureStatus(last.post)
             /\ ~IsTransportFailure(last.post)) =>
              /\ last.out.raised
              /\ last.out.exc.cls = "GoogleChatClientError"
              /\ last.out.exc.error_info.message
                    = "Unexpected error building Google Chat message"
              /\ last.out.exc.original_exception # NoExc

\* C16 as amended: send ends with no error other than
\* GoogleChatSendMessageError and GoogleChatClientError.  A failure that
\* reaches send and is neither a non-2xx status nor a transport failure
\* (stats that is no dict, an error of requests.post that is no
\* RequestException, a response whose text cannot be read) is raised as
\* GoogleChatClientError with code 9000, the message "Unexpected error
\* building Google Chat message" and the original error as its cause.  A
\* failure while resolving the identity of the provider does not make send
\* fail: with a stats dict and a 2xx response send returns.
C16_OnlyTypedErrors ==
    last.op = "send" =>
        /\ (IdentityFails(notifier.provider) /\ last.stats.mapping /\ IsSuccess(last.post)) =>
              ~last.out.raised
        /\ last.out.raised =>
              last.out.exc.cls \in {"GoogleChatSendMessageError", "GoogleChatClientError"}
        /\ (~last.stats.mapping \/ last.post.kind \in {"raise", "unreadable"}) =>
              last.out.raised
        /\ (last.out.raised /\ ~IsFailureStatus(last.post) /\ ~IsTransportFailure(last.post)) =>
              /\ last.out.exc.cls = "GoogleChatClientError"
              /\ last.out.exc.code = 9000
              /\ last.out.exc.error_info.message
                    = "Unexpected error building Google Chat message"
              /\ last.out.exc.original_exception # NoExc
              /\ ~last.stats.mapping =>
                    last.out.exc.original_exception = Error("AttributeError")
              /\ last.stats.mapping => last.out.exc.original_exception = last.post.exc
        /\ (last.out.raised /\ last.out.exc.cls = "GoogleChatSendMessageError") =>
              IsFailureStatus(last.post)

C16_Witness ==
    /\ last.op = "send"
    /\ IdentityFails(notifier.provider)
    /\ last.stats = BuildStats
    /\ last.post = UnreadableResponse(200)
    /\ Len(posted) = 1
    /\ last.out.raised
    /\ last.out.exc.cls = "GoogleChatClientError"
    /\ last.out.exc.error_info.message = "Unexpected error building Google Chat message"
    /\ last.out.exc.original_exception = Error("RuntimeError")

\* reading stats['findings_count'] raises inside build_summary_title
SummaryFails(stats) == ~stats.mapping \/ "findings_count" \notin DOMAIN stats.d

\* an error occurs in a step of the call: identity resolution, summary line,
\* payload building, POST or response classification for send; validation,
\* POST or response classification for test_connection
ErrorOccurs(call) ==
    \/ /\ call.op = "send"
       /\ \/ IdentityFails(notifier.provider)
          \/ SummaryFails(call.stats)
          \/ call.post.kind \in {"raise", "unreadable"}
          \/ IsFailureStatus(call.post)
    \/ /\ call.op = "test_connection"
       /\ \/ ~IsGoodUrl(call.url)
          \/ call.post.kind = "raise"
          \/ IsFailureStatus(call.post)
          \/ (call.post.kind = "unreadable" /\ call.post.status_code >= 300)

\* the call reports an error to its caller: it raises, or test_connection
\* returns a Connection that is not connected and carries the error
ErrorReported(call) ==
    \/ call.out.raised
    \/ /\ call.op = "test_connection"
       /\ ~call.out.value.is_connected
       /\ call.out.value.error # NoExc

\* C17 as claimed: outside the percentage calculator no error is swallowed:
\* an error that occurs in identity resolution, in the summary line, in
\* payload building, in the POST or in response classification is reported
\* to the caller of send or test_connection.
C17_OnlyCalculatorSwallows ==
    (last.op \in {"send", "test_connection"} /\ ErrorOccurs(last)) => ErrorReported(last)

\* C17 as amended: errors are swallowed also in identity resolution and in
\* the summary line: with a stats dict and a 2xx response send returns
\* although reading the identity or findings_count failed, and the payload
\* POSTed then has "Unknown provider" with the default logo, or an empty
\* summary paragraph.  In the other steps an error is reported to the caller
\* as a typed error: stats that is no dict, a failed POST, a non-2xx status
\* and a response that cannot be read make send raise a GoogleChat error; an
\* invalid URL, a failed POST and a non-2xx status make test_connection
\* raise one or return it in a Connection that is not connected.
C17_SwallowedAndPropagated ==
    /\ last.op = "send" =>
          /\ (last.stats.mapping /\ IsSuccess(last.post)) =>
                /\ ~last.out.raised
                /\ IdentityFails(notifier.provider) =>
                      /\ EnvironmentWidget.text = "*Environment*\nUnknown provider"
                      /\ EnvironmentWidget.startIcon.imageUrl = aws_logo
                /\ SummaryFails(last.stats) => SummaryText = ""
                /\ ~SummaryFails(last.stats) => SummaryText # ""
          /\ (\/ ~last.stats.mapping
              \/ last.post.kind \in {"raise", "unreadable"}
              \/ IsFailureStatus(last.post)) =>
                /\ last.out.raised
                /\ IsGoogleChatBaseException(last.out.exc)
    /\ (last.op = "test_connection" /\ ErrorOccurs(last)) =>
          /\ ErrorReported(last)
          /\ IsGoogleChatBaseException(ErrorOf(last))
          /\ last.out.raised <=> last.raise_on_exception

C17_Witness ==
    /\ last.op = "send"
    /\ IdentityFails(notifier.provider)
    /\ last.stats = StatsWithoutFindingsCount
    /\ last.post = Response(200, "ok")
    /\ last.out = Return(PyStr("ok"))
    /\ Len(posted) = 1
    /\ EnvironmentWidget.text = "*Environment*\nUnknown provider"
    /\ SummaryText = ""

\* C18: the error table is static: whatever errors were constructed, with
\* a message override or without one, GOOGLE_CHAT_ERROR_CODES is the table
\* the module defines; an error constructed without a message carries the
\* default message of its kind, and an error constructed with a message
\* carries that message.
C18_TableIsStatic ==
    /\ GOOGLE_CHAT_ERROR_CODES = ErrorTable
    /\ last.op = "exception" =>
          last.out.value.error_info.message =
              (IF last.args # "" THEN last.args
               ELSE ErrorTable[<<CodeOf(last.url.s), last.url.s>>].message)

=============================================================================
